---------------------------- MODULE Spec2Model ----------------------------
(***************************************************************************)
(* Order service of kareemhamed001/ecommerce-microservices: the circuit    *)
(* breaker client interceptor (pkg grpcmiddleware, built on                *)
(* github.com/sony/gobreaker) and the order use case with its PostgreSQL   *)
(* repository.                                                             *)
(*                                                                         *)
(* Time is a discrete clock `now`; durations are counted in ticks.         *)
(* Prices, costs and totals are float32 in the source; the model draws     *)
(* them from small integers, on which float32 arithmetic is exact.         *)
(***************************************************************************)
EXTENDS Integers, Sequences, FiniteSets, TLC

(***************************************************************************)
(* Breaker configuration (CircuitBreakerConfig, read from the environment) *)
(***************************************************************************)
\* cfg.MaxRequests: half-open probe budget
MaxRequests == 2
\* cfg.MinRequests: sample size below which ReadyToTrip answers false
MinRequests == 2
\* cfg.FailureRatio as the fraction FailureRatioNum / FailureRatioDen
FailureRatioNum == 1
FailureRatioDen == 2
\* cfg.Interval: length of a closed-state counting window, in ticks
Interval == 3
\* cfg.Timeout: open-state cool-down, in ticks
Timeout == 2

(***************************************************************************)
(* Bounds of the model                                                     *)
(***************************************************************************)
\* the clock stops at MaxTime
MaxTime == 6
\* concurrent client calls through one interceptor
NumCallers == 3
\* calls admitted in one generation of the breaker (caps counts.Requests)
MaxAdmitted == 3
\* concurrent requests handled by the order service
NumProcs == 2
\* items of one CreateOrder request
MaxItems == 2
\* requests the order service accepts in one behaviour
MaxCalls == 3
\* ids the sequence of orders.id hands out in one behaviour
MaxOrders == 1

Callers == 1..NumCallers
Procs == 1..NumProcs

\* the two downstream dependencies of the order service, one interceptor each
Deps == {"user", "product"}

\* what the wrapped invoker can return: nil, a gRPC status code, or an error
\* that carries no gRPC status
Outcomes ==
    {"nil", "NotFound", "InvalidArgument", "Canceled", "Unavailable",
     "DeadlineExceeded", "ResourceExhausted", "Internal", "NoStatus"}

\* time.Time{} (the zero time)
ZeroTime == -1

VARIABLES
    cb,      \* cb[d]: the gobreaker.CircuitBreaker of dependency d
    now,     \* the clock read by time.Now()
    calls,   \* calls[c]: position of client call c inside cb.Execute
    last,    \* history: the latest interceptor step and the breaker before it
    onlyNotFound, \* history: every call completed so far returned NotFound
    orders,  \* committed rows of table orders, by id
    items,   \* committed rows of table order_items
    orderSeq, \* last value of the serial sequence of orders.id
    itemSeq, \* last value of the serial sequence of order_items.id
    proc,    \* proc[p]: the request handled by worker p and its position
    started  \* history: number of requests accepted so far

bvars == <<cb, now, calls, last, onlyNotFound>>
ovars == <<orders, items, orderSeq, itemSeq, proc, started>>
vars == <<cb, now, calls, last, onlyNotFound, orders, items, orderSeq, itemSeq, proc,
          started>>

(***************************************************************************)
(* Failure classification                                                  *)
(***************************************************************************)
\* mutant: only a nil error is not a breaker failure
isBreakerFailure_EveryError(err) == err # "nil"

\* mutant: a call that ran into its deadline counts as a success
isBreakerFailure_TimeoutSucceeds(err) ==
    IF err = "nil" THEN FALSE
    ELSE IF err = "NoStatus" THEN TRUE
    ELSE err \in {"Unavailable", "ResourceExhausted", "Internal"}

isBreakerFailure(err) ==
    IF err = "nil" THEN FALSE
    ELSE IF err = "NoStatus" THEN TRUE
    ELSE err \in {"Unavailable", "DeadlineExceeded", "ResourceExhausted", "Internal"}

IsSuccessful(err) == ~isBreakerFailure(err)

\* mutant: the failure ratio must exceed the threshold
ReadyToTrip_Strict(counts) ==
    IF MinRequests > 0 /\ counts.Requests < MinRequests THEN FALSE
    ELSE IF counts.Requests = 0 THEN FALSE
    ELSE counts.TotalFailures * FailureRatioDen > FailureRatioNum * counts.Requests

\* mutant: the sample size is not looked at
ReadyToTrip_NoMinimum(counts) ==
    IF counts.Requests = 0 THEN FALSE
    ELSE counts.TotalFailures * FailureRatioDen >= FailureRatioNum * counts.Requests

ReadyToTrip(counts) ==
    IF MinRequests > 0 /\ counts.Requests < MinRequests THEN FALSE
    ELSE IF counts.Requests = 0 THEN FALSE
    ELSE counts.TotalFailures * FailureRatioDen >= FailureRatioNum * counts.Requests

(***************************************************************************)
(* gobreaker.CircuitBreaker, as configured by the interceptor              *)
(***************************************************************************)
\* NewCircuitBreaker: MaxRequests 0 means 1
cbMaxRequests == IF MaxRequests = 0 THEN 1 ELSE MaxRequests

\* mutant: clearing the counts leaves the failures in place
clearCounts_KeepsFailures(b) ==
    [b EXCEPT !.Requests = 0, !.TotalSuccesses = 0,
              !.ConsecutiveSuccesses = 0, !.ConsecutiveFailures = 0]

clearCounts(b) ==
    [b EXCEPT !.Requests = 0, !.TotalSuccesses = 0, !.TotalFailures = 0,
              !.ConsecutiveSuccesses = 0, !.ConsecutiveFailures = 0]

toNewGeneration(b, t) ==
    [clearCounts(b) EXCEPT
        !.generation = @ + 1,
        !.expiry = CASE b.state = "closed" ->
                          IF Interval = 0 THEN ZeroTime ELSE t + Interval
                     [] b.state = "open" -> t + Timeout
                     [] OTHER -> ZeroTime]

setState(b, state, t) ==
    IF b.state = state THEN b
    ELSE toNewGeneration([b EXCEPT !.state = state], t)

\* mutant: an open breaker half-opens whatever its expiry
currentState_NoCooldown(b, t) ==
    CASE b.state = "closed" /\ b.expiry # ZeroTime /\ b.expiry < t ->
            toNewGeneration(b, t)
      [] b.state = "open" -> setState(b, "half-open", t)
      [] OTHER -> b

\* mutant: a closed breaker keeps its window whatever the time
currentState_OneWindow(b, t) ==
    CASE b.state = "open" /\ b.expiry < t -> setState(b, "half-open", t)
      [] OTHER -> b

currentState(b, t) ==
    CASE b.state = "closed" /\ b.expiry # ZeroTime /\ b.expiry < t ->
            toNewGeneration(b, t)
      [] b.state = "open" /\ b.expiry < t ->
            setState(b, "half-open", t)
      [] OTHER -> b

\* mutant: the first successful probe closes the breaker
onSuccess_FirstProbeCloses(b, t) ==
    LET c == [b EXCEPT !.TotalSuccesses = @ + 1,
                       !.ConsecutiveSuccesses = @ + 1,
                       !.ConsecutiveFailures = 0]
    IN CASE b.state = "closed" -> c
         [] b.state = "half-open" -> setState(c, "closed", t)
         [] OTHER -> b

\* mutant: successful probes never close the breaker
onSuccess_StaysHalfOpen(b, t) ==
    LET c == [b EXCEPT !.TotalSuccesses = @ + 1,
                       !.ConsecutiveSuccesses = @ + 1,
                       !.ConsecutiveFailures = 0]
    IN CASE b.state \in {"closed", "half-open"} -> c
         [] OTHER -> b

onSuccess(b, t) ==
    LET c == [b EXCEPT !.TotalSuccesses = @ + 1,
                       !.ConsecutiveSuccesses = @ + 1,
                       !.ConsecutiveFailures = 0]
    IN CASE b.state = "closed" -> c
         [] b.state = "half-open" ->
              IF c.ConsecutiveSuccesses >= cbMaxRequests
              THEN setState(c, "closed", t) ELSE c
         [] OTHER -> b

\* mutant: a failed probe re-opens the breaker only when ReadyToTrip agrees
onFailure_ProbeNeedsTrip(b, t) ==
    LET c == [b EXCEPT !.TotalFailures = @ + 1,
                       !.ConsecutiveFailures = @ + 1,
                       !.ConsecutiveSuccesses = 0]
    IN CASE b.state \in {"closed", "half-open"} ->
              IF ReadyToTrip(c) THEN setState(c, "open", t) ELSE c
         [] OTHER -> b

onFailure(b, t) ==
    LET c == [b EXCEPT !.TotalFailures = @ + 1,
                       !.ConsecutiveFailures = @ + 1,
                       !.ConsecutiveSuccesses = 0]
    IN CASE b.state = "closed" ->
              IF ReadyToTrip(c) THEN setState(c, "open", t) ELSE c
         [] b.state = "half-open" -> setState(b, "open", t)
         [] OTHER -> b

\* mutant: the half-open budget is checked with > instead of >=
beforeRequest_OneTooMany(b, t) ==
    LET c == currentState(b, t)
    IN IF c.state = "open"
       THEN [cb |-> c, generation |-> c.generation, err |-> "ErrOpenState"]
       ELSE IF c.state = "half-open" /\ c.Requests > cbMaxRequests
       THEN [cb |-> c, generation |-> c.generation, err |-> "ErrTooManyRequests"]
       ELSE [cb |-> [c EXCEPT !.Requests = @ + 1],
             generation |-> c.generation, err |-> "nil"]

\* mutant: an admitted call is not counted in Requests
beforeRequest_NotCounted(b, t) ==
    LET c == currentState(b, t)
    IN IF c.state = "open"
       THEN [cb |-> c, generation |-> c.generation, err |-> "ErrOpenState"]
       ELSE IF c.state = "half-open" /\ c.Requests >= cbMaxRequests
       THEN [cb |-> c, generation |-> c.generation, err |-> "ErrTooManyRequests"]
       ELSE [cb |-> c, generation |-> c.generation, err |-> "nil"]

\* the breaker after beforeRequest, the generation it returns and its error
beforeRequest(b, t) ==
    LET c == currentState(b, t)
    IN IF c.state = "open"
       THEN [cb |-> c, generation |-> c.generation, err |-> "ErrOpenState"]
       ELSE IF c.state = "half-open" /\ c.Requests >= cbMaxRequests
       THEN [cb |-> c, generation |-> c.generation, err |-> "ErrTooManyRequests"]
       ELSE [cb |-> [c EXCEPT !.Requests = @ + 1],
             generation |-> c.generation, err |-> "nil"]

\* mutant: the result is counted whatever generation admitted the call
afterRequest_AnyGeneration(b, before, success, t) ==
    LET c == currentState(b, t)
    IN IF success THEN onSuccess(c, t) ELSE onFailure(c, t)

afterRequest(b, before, success, t) ==
    LET c == currentState(b, t)
    IN IF c.generation # before THEN c
       ELSE IF success THEN onSuccess(c, t) ELSE onFailure(c, t)

\* gobreaker.NewCircuitBreaker(settings) at time t
NewCircuitBreaker(t) ==
    toNewGeneration(
        [state |-> "closed", generation |-> 0, expiry |-> ZeroTime,
         Requests |-> 0, TotalSuccesses |-> 0, TotalFailures |-> 0,
         ConsecutiveSuccesses |-> 0, ConsecutiveFailures |-> 0], t)

(***************************************************************************)
(* Client calls through the interceptor of one dependency                  *)
(***************************************************************************)
\* the dependency whose interceptor the concurrent callers exercise
Target == "product"

IdleCall == [pc |-> "idle", generation |-> 0]

NoStep == [op |-> "none", c |-> 0, out |-> "nil", generation |-> 0,
           pre |-> NewCircuitBreaker(0), remote |-> "none",
           completed |-> 0, failures |-> 0]

BreakerInit ==
    /\ cb = [d \in Deps |-> NewCircuitBreaker(0)]
    /\ now = 0
    /\ calls = [c \in Callers |-> IdleCall]
    /\ last = NoStep
    /\ onlyNotFound = TRUE

\* cb.Execute up to the call of req: beforeRequest admits or rejects; the
\* call remembers the state of the breaker that admitted it (history)
Execute_beforeRequest(c) ==
    /\ calls[c].pc = "idle"
    /\ LET r == beforeRequest(cb[Target], now)
       IN /\ r.cb.Requests <= MaxAdmitted
          /\ cb' = [cb EXCEPT ![Target] = r.cb]
          /\ calls' = [calls EXCEPT ![c] =
                 IF r.err = "nil"
                 THEN [pc |-> "inflight", generation |-> r.generation,
                       state |-> r.cb.state]
                 ELSE IdleCall]
          /\ last' = [op |-> "before", c |-> c, out |-> r.err,
                      generation |-> r.generation, pre |-> cb[Target],
                      remote |-> "none"]
    /\ UNCHANGED <<now, onlyNotFound>>

\* the invoker returns err; cb.Execute feeds the classified result back
Execute_afterRequest(c, err) ==
    /\ calls[c].pc = "inflight"
    /\ cb' = [cb EXCEPT ![Target] =
                 afterRequest(@, calls[c].generation, IsSuccessful(err), now)]
    /\ calls' = [calls EXCEPT ![c] = IdleCall]
    /\ last' = [op |-> "after", c |-> c, out |-> err,
                generation |-> calls[c].generation, pre |-> cb[Target],
                remote |-> err, admitted |-> calls[c].state]
    /\ onlyNotFound' = (onlyNotFound /\ err = "NotFound")
    /\ UNCHANGED now

Tick ==
    /\ now < MaxTime
    /\ now' = now + 1
    /\ last' = [NoStep EXCEPT !.op = "tick"]
    /\ UNCHANGED <<cb, calls, onlyNotFound>>

IdleProc == [op |-> "none", pc |-> "idle"]

\* the order database after the migrations, and no request being handled
OrderInit ==
    /\ orders = << >>
    /\ items = {}
    /\ orderSeq = 0
    /\ itemSeq = 0
    /\ proc = [p \in Procs |-> IdleProc]
    /\ started = 0

BreakerNext ==
    /\ \/ \E c \in Callers : Execute_beforeRequest(c)
       \/ \E c \in Callers, err \in Outcomes : Execute_afterRequest(c, err)
       \/ Tick
    /\ UNCHANGED ovars

\* the order service after main has built it
Init == BreakerInit /\ OrderInit

SpecBreaker == Init /\ [][BreakerNext]_vars

(***************************************************************************)
(* The interceptor of a dependency that recovers: calls keep arriving,     *)
(* every admitted call is answered, and breaker failures stop early enough *)
(* for the last cool-down to end before the clock of the model stops       *)
(***************************************************************************)
\* the dependency may still answer with a breaker failure at time t
Unhealthy(t) == t + Timeout < MaxTime

\* a client issues a call
Recovery_call(c) == Execute_beforeRequest(c) /\ UNCHANGED ovars

\* the dependency answers call c, within downstreamTimeout
Recovery_answer(c, err) ==
    /\ isBreakerFailure(err) => Unhealthy(now)
    /\ Execute_afterRequest(c, err)
    /\ UNCHANGED ovars

\* time passes
Recovery_tick == Tick /\ UNCHANGED ovars

RecoveryNext ==
    \/ \E c \in Callers : Recovery_call(c)
    \/ \E c \in Callers, err \in Outcomes : Recovery_answer(c, err)
    \/ Recovery_tick

\* fairness: the clock advances, calls keep arriving, and every call in
\* flight is answered
SpecRecovery ==
    /\ Init /\ [][RecoveryNext]_vars
    /\ WF_vars(Recovery_tick)
    /\ WF_vars(\E c \in Callers : Recovery_call(c))
    /\ \A c \in Callers : WF_vars(\E err \in Outcomes : Recovery_answer(c, err))


(***************************************************************************)
(* The interceptor of a configuration with Enabled = false                 *)
(***************************************************************************)
\* mutant: the interceptor runs the breaker whatever cfg.Enabled says
CircuitBreakerUnaryClientInterceptor_AlwaysOn(enabled) == "cb.Execute"

\* CircuitBreakerUnaryClientInterceptor(name, cfg): what the interceptor it
\* returns does with a call, by cfg.Enabled
CircuitBreakerUnaryClientInterceptor(enabled) ==
    IF ~enabled THEN "invoker" ELSE "cb.Execute"

\* the pass-through closure calls invoker; last.completed and last.failures
\* are the history of the first MaxAdmitted completed calls
PassThrough_invoke(c) ==
    /\ calls[c].pc = "idle"
    /\ calls' = [calls EXCEPT ![c] = [pc |-> "inflight", generation |-> 0]]
    /\ last' = [op |-> "before", c |-> c, out |-> "nil", generation |-> 0,
                pre |-> cb[Target], remote |-> "none",
                completed |-> last.completed, failures |-> last.failures]
    /\ UNCHANGED <<cb, now, onlyNotFound>>

\* invoker returns err and the closure returns it
PassThrough_return(c, err) ==
    /\ calls[c].pc = "inflight"
    /\ calls' = [calls EXCEPT ![c] = IdleCall]
    /\ LET counts == last.completed < MaxAdmitted
       IN last' = [op |-> "after", c |-> c, out |-> err, generation |-> 0,
                   pre |-> cb[Target], remote |-> err,
                   completed |-> last.completed + (IF counts THEN 1 ELSE 0),
                   failures |-> last.failures +
                       (IF counts /\ isBreakerFailure(err) THEN 1 ELSE 0)]
    /\ onlyNotFound' = (onlyNotFound /\ err = "NotFound")
    /\ UNCHANGED <<cb, now>>

\* a client call enters the interceptor built for cfg.Enabled = enabled
Intercept_call(c, enabled) ==
    IF CircuitBreakerUnaryClientInterceptor(enabled) = "invoker"
    THEN PassThrough_invoke(c)
    ELSE Execute_beforeRequest(c)

\* the target answers a call made through that interceptor
Intercept_return(c, err, enabled) ==
    IF CircuitBreakerUnaryClientInterceptor(enabled) = "invoker"
    THEN PassThrough_return(c, err)
    ELSE Execute_afterRequest(c, err)

DisabledNext ==
    /\ \/ \E c \in Callers : Intercept_call(c, FALSE)
       \/ \E c \in Callers, err \in Outcomes : Intercept_return(c, err, FALSE)
    /\ UNCHANGED ovars

\* the interceptor of one dependency under CB_ENABLED = false
SpecDisabled == Init /\ [][DisabledNext]_vars

(***************************************************************************)
(* Order use case (OrderUsecase) and its repository (OrderRepository)      *)
(***************************************************************************)
UserIds == {1}
\* prices the product service answers with
Prices == {2, 20}
\* (shippingCost, discount) of the requests
Charges == {<<10, 5>>, <<-1, -1>>, <<-1, 5>>}

\* the item lists of the requests: n items, item i asking for product 6 + i
\* in quantity 3 - i (at least 1)
ItemList(n) ==
    [i \in 1..n |-> [productId |-> 6 + i,
                     quantity |-> IF i < 2 THEN 3 - i ELSE 1]]
ItemLists == {ItemList(n) : n \in 1..MaxItems}
CreateOrderRequest ==
    {[userId |-> u, shippingCost |-> c[1], discount |-> c[2], items |-> l] :
        u \in UserIds, c \in Charges, l \in ItemLists}

\* errors a downstream service answers a validation call with; the call runs
\* under downstreamTimeout, which surfaces as DeadlineExceeded
RemoteErrors == {"NotFound", "Unavailable", "DeadlineExceeded"}
UserReplies == {"nil"} \cup RemoteErrors
\* GetProductByID: an error, a response without product, or a product
ProductReplies ==
    [err : RemoteErrors, present : {FALSE}, price : {0}]
       \cup [err : {"nil"}, present : {FALSE}, price : {0}]
       \cup [err : {"nil"}, present : {TRUE}, price : Prices]

\* mutant: the total is not clamped at zero
calculateOrderTotal_Unclamped(itemsTotal, shippingCost, discount) ==
    LET d == IF discount < 0 THEN 0 ELSE discount
        c == IF shippingCost < 0 THEN 0 ELSE shippingCost
    IN itemsTotal + c - d

calculateOrderTotal(itemsTotal, shippingCost, discount) ==
    LET d == IF discount < 0 THEN 0 ELSE discount
        c == IF shippingCost < 0 THEN 0 ELSE shippingCost
        total == itemsTotal + c - d
    IN IF total < 0 THEN 0 ELSE total

NoError == [msg |-> "nil", cause |-> "nil"]
NoTx == [open |-> FALSE, orders |-> {}, items |-> {}]
NoOrder == [id |-> 0]

\* a CreateOrder call that has just entered the use case
NewCreateOrder(req) ==
    [op |-> "CreateOrder", pc |-> "start", req |-> req, generation |-> 0,
     items |-> << >>, itemsTotal |-> 0, order |-> NoOrder, next |-> 1,
     tx |-> NoTx, err |-> NoError,
     \* history of the call
     userValid |-> "pending", asked |-> << >>, returned |-> << >>,
     failedAt |-> 0, wrote |-> FALSE, invoked |-> 0]

\* the call has returned: its result and its history
Returned(q, err, orderId) ==
    [op |-> q.op, pc |-> "done", err |-> err, orderId |-> orderId,
     userValid |-> q.userValid, issued |-> Len(q.asked),
     failedAt |-> q.failedAt, wrote |-> q.wrote, allocated |-> q.order.id,
     invoked |-> q.invoked]

\* the call returns err to its caller
ReturnError(q, msg, cause) == Returned(q, [msg |-> msg, cause |-> cause], 0)

\* mutant: CreateOrder goes on after a failed user validation
CreateOrder_afterUser_Ignored(q, err) ==
    [q EXCEPT !.pc = "product",
              !.userValid = IF err = "nil" THEN "yes" ELSE "no"]

\* CreateOrder after ensureUserExists returned err
CreateOrder_afterUser(q, err) ==
    IF err # "nil"
    THEN ReturnError([q EXCEPT !.userValid = "no"], "user not found", err)
    ELSE [q EXCEPT !.pc = "product", !.userValid = "yes"]

\* mutant: the validator replaces the error of the call by one of its own
ensureProductExists_Opaque(err, reply) ==
    IF err # "nil" \/ ~reply.present
    THEN [msg |-> "product not found", cause |-> "unavailable"]
    ELSE NoError

\* ensureProductExists: the error it returns for the interceptor's err and reply
ensureProductExists(err, reply) ==
    IF err # "nil" THEN [msg |-> "product not found", cause |-> err]
    ELSE IF ~reply.present
    THEN [msg |-> "product not found", cause |-> "empty response"]
    ELSE NoError

\* the loop body of CreateOrder once the product was found at unitPrice
CreateOrder_appendItem(q, unitPrice) ==
    LET item == q.req.items[q.next]
        totalPrice == unitPrice * item.quantity
    IN [q EXCEPT
          !.itemsTotal = @ + totalPrice,
          !.items = Append(@, [productId |-> item.productId,
                               quantity |-> item.quantity,
                               unitPrice |-> unitPrice,
                               totalPrice |-> totalPrice]),
          !.returned = Append(@, unitPrice),
          !.next = @ + 1,
          !.pc = IF q.next = Len(q.req.items) THEN "persist" ELSE "product"]

\* mutant: an item whose product cannot be validated is skipped
CreateOrder_afterProduct_Skip(q, e, reply) ==
    IF e # NoError
    THEN [q EXCEPT !.failedAt = q.next, !.next = @ + 1,
                   !.pc = IF q.next = Len(q.req.items)
                          THEN "persist" ELSE "product"]
    ELSE CreateOrder_appendItem(q, reply.price)

\* CreateOrder after ensureProductExists returned e for item q.next
CreateOrder_afterProduct(q, e, reply) ==
    IF e # NoError
    THEN ReturnError([q EXCEPT !.failedAt = q.next], e.msg, e.cause)
    ELSE CreateOrder_appendItem(q, reply.price)

\* the domain.Order CreateOrder hands to the repository
CreateOrder_order(q) ==
    [userId |-> q.req.userId,
     shippingCost |-> q.req.shippingCost,
     discount |-> q.req.discount,
     total |-> calculateOrderTotal(q.itemsTotal, q.req.shippingCost,
                                   q.req.discount),
     status |-> "pending"]

\* rows of order_items one repository CreateOrder inserts: gorm's Create
\* saves the has-many association Items together with the order, and the
\* loop then creates every item once more under a fresh id
RowsOfCreateOrder(req) == 2 * Len(req.items)

ItemRow(id, orderId, it, origin) ==
    [id |-> id, orderId |-> orderId, productId |-> it.productId,
     quantity |-> it.quantity, unitPrice |-> it.unitPrice,
     totalPrice |-> it.totalPrice, deleted |-> FALSE, origin |-> origin]

\* mutant: statements run on the plain connection and commit one by one
txInsert_AutoCommit(db, tx, orderRows, itemRows) ==
    [db |-> [orders |-> db.orders \cup orderRows,
             items |-> db.items \cup itemRows],
     tx |-> [open |-> TRUE, orders |-> tx.orders \cup orderRows,
             items |-> tx.items \cup itemRows]]

\* an INSERT inside db.Transaction: the rows stay private to the transaction
txInsert(db, tx, orderRows, itemRows) ==
    [db |-> db,
     tx |-> [open |-> TRUE, orders |-> tx.orders \cup orderRows,
             items |-> tx.items \cup itemRows]]

\* the callback returned nil: COMMIT publishes the rows
txCommit(db, tx) ==
    [orders |-> db.orders \cup tx.orders, items |-> db.items \cup tx.items]

\* the callback returned an error: ROLLBACK
txRollback(db, tx) == db

\* table orders as a set of rows
OrderRows == {orders[o] : o \in DOMAIN orders}
DB == [orders |-> OrderRows, items |-> items]

\* the tables after a statement left them as db
StoreBecomes(db) ==
    /\ orders' = [o \in {r.id : r \in db.orders} |->
                     CHOOSE r \in db.orders : r.id = o]
    /\ items' = db.items

ItemsOf(orderId) == {it \in items : it.orderId = orderId /\ ~it.deleted}

\* mutant: both connections are given the interceptor of the user service
BreakerOf_Shared(dep) == "user"

\* the breaker behind the client of dependency dep: main builds one
\* interceptor, hence one breaker, for each connection
BreakerOf(dep) == dep

\* worker p is free to take a request, and takes it
Accepts(p) ==
    /\ proc[p].pc \in {"idle", "done"}
    /\ started < MaxCalls
    /\ started' = started + 1

\* CreateOrder enters and ensureUserExists issues GetUserByID through the
\* user interceptor
CreateOrder(p, req) ==
    /\ Accepts(p)
    /\ LET r == beforeRequest(cb[BreakerOf("user")], now)
           q == NewCreateOrder(req)
       IN /\ cb' = [cb EXCEPT ![BreakerOf("user")] = r.cb]
          /\ proc' = [proc EXCEPT ![p] =
                IF r.err = "nil"
                THEN [q EXCEPT !.pc = "user", !.generation = r.generation,
                               !.invoked = 1]
                ELSE CreateOrder_afterUser(q, r.err)]
    /\ UNCHANGED <<now, calls, last, onlyNotFound, orders, items, orderSeq, itemSeq>>

\* GetUserByID returns err
CreateOrder_ensureUserExists(p, err) ==
    /\ proc[p].op = "CreateOrder" /\ proc[p].pc = "user"
    /\ cb' = [cb EXCEPT ![BreakerOf("user")] =
                 afterRequest(@, proc[p].generation, IsSuccessful(err), now)]
    /\ proc' = [proc EXCEPT ![p] = CreateOrder_afterUser(@, err)]
    /\ UNCHANGED <<now, calls, last, onlyNotFound, orders, items, orderSeq, itemSeq, started>>

\* ensureProductExists issues GetProductByID for item next through the
\* product interceptor
CreateOrder_callProduct(p) ==
    /\ proc[p].op = "CreateOrder" /\ proc[p].pc = "product"
    /\ LET r == beforeRequest(cb[BreakerOf("product")], now)
           q == [proc[p] EXCEPT
                    !.asked = Append(@, proc[p].req.items[proc[p].next].productId)]
       IN /\ cb' = [cb EXCEPT ![BreakerOf("product")] = r.cb]
          /\ proc' = [proc EXCEPT ![p] =
                IF r.err = "nil"
                THEN [q EXCEPT !.pc = "product_call",
                               !.generation = r.generation,
                               !.invoked = @ + 1]
                ELSE CreateOrder_afterProduct(
                        q, ensureProductExists(r.err, [present |-> FALSE]),
                        [present |-> FALSE])]
    /\ UNCHANGED <<now, calls, last, onlyNotFound, orders, items, orderSeq, itemSeq, started>>

\* GetProductByID returns reply
CreateOrder_ensureProductExists(p, reply) ==
    /\ proc[p].op = "CreateOrder" /\ proc[p].pc = "product_call"
    /\ cb' = [cb EXCEPT ![BreakerOf("product")] =
                 afterRequest(@, proc[p].generation, IsSuccessful(reply.err), now)]
    /\ proc' = [proc EXCEPT ![p] =
          CreateOrder_afterProduct(@, ensureProductExists(reply.err, reply), reply)]
    /\ UNCHANGED <<now, calls, last, onlyNotFound, orders, items, orderSeq, itemSeq, started>>

\* repository CreateOrder: BEGIN and Create(order), which inserts the order
\* row and its Items; ok = FALSE is a database error
Repo_CreateOrder_order(p, ok) ==
    /\ proc[p].op = "CreateOrder" /\ proc[p].pc = "persist"
    /\ orderSeq < MaxOrders
    /\ LET q == proc[p]
           id == orderSeq + 1
           n == Len(q.items)
           row == CreateOrder_order(q) @@
                  [id |-> id, rows |-> RowsOfCreateOrder(q.req)]
           rows == {ItemRow(itemSeq + i, id, q.items[i], "create") : i \in 1..n}
           w == txInsert(DB, q.tx, {row}, rows)
       IN IF ok
          THEN /\ orderSeq' = id
               /\ itemSeq' = itemSeq + n
               /\ StoreBecomes(w.db)
               /\ proc' = [proc EXCEPT ![p] =
                     [q EXCEPT !.pc = "persist_items", !.next = 1,
                               !.order = row, !.tx = w.tx, !.wrote = TRUE]]
          ELSE /\ StoreBecomes(txRollback(DB, q.tx))
               /\ proc' = [proc EXCEPT ![p] =
                     ReturnError([q EXCEPT !.wrote = TRUE], "db", "insert order")]
               /\ UNCHANGED <<orderSeq, itemSeq>>
    /\ UNCHANGED <<cb, now, calls, last, onlyNotFound, started>>

\* repository CreateOrder: the loop creates item next under a fresh id
Repo_CreateOrder_item(p, ok) ==
    /\ proc[p].op = "CreateOrder" /\ proc[p].pc = "persist_items"
    /\ LET q == proc[p]
           id == itemSeq + 1
           w == txInsert(DB, q.tx, {},
                         {ItemRow(id, q.order.id, q.items[q.next], "create")})
       IN IF ok
          THEN /\ itemSeq' = id
               /\ StoreBecomes(w.db)
               /\ proc' = [proc EXCEPT ![p] =
                     [q EXCEPT !.tx = w.tx, !.next = @ + 1,
                               !.pc = IF q.next = Len(q.items)
                                      THEN "commit" ELSE "persist_items"]]
          ELSE /\ StoreBecomes(txRollback(DB, q.tx))
               /\ proc' = [proc EXCEPT ![p] = ReturnError(q, "db", "insert item")]
               /\ UNCHANGED itemSeq
    /\ UNCHANGED <<cb, now, calls, last, onlyNotFound, orderSeq, started>>

\* repository CreateOrder: the callback returned nil and gorm commits
Repo_CreateOrder_commit(p, ok) ==
    /\ proc[p].op = "CreateOrder" /\ proc[p].pc = "commit"
    /\ LET q == proc[p]
       IN IF ok
          THEN /\ StoreBecomes(txCommit(DB, q.tx))
               /\ proc' = [proc EXCEPT ![p] = Returned(q, NoError, q.order.id)]
          ELSE /\ StoreBecomes(txRollback(DB, q.tx))
               /\ proc' = [proc EXCEPT ![p] = ReturnError(q, "db", "commit")]
    /\ UNCHANGED <<cb, now, calls, last, onlyNotFound, orderSeq, itemSeq, started>>

\* mutant: the ids come back in ascending order
RECURSIVE OrderByIdDesc_Asc(_)
OrderByIdDesc_Asc(S) ==
    IF S = {} THEN << >>
    ELSE LET m == CHOOSE x \in S : \A y \in S : x <= y
         IN <<m>> \o OrderByIdDesc_Asc(S \ {m})

\* ids of S as ORDER BY id desc returns them
RECURSIVE OrderByIdDesc(_)
OrderByIdDesc(S) ==
    IF S = {} THEN << >>
    ELSE LET m == CHOOSE x \in S : \A y \in S : y <= x
         IN <<m>> \o OrderByIdDesc(S \ {m})

\* OFFSET off LIMIT lim of the rows s
OffsetLimit(s, off, lim) ==
    [i \in 1..(IF Len(s) - off < lim
               THEN (IF Len(s) < off THEN 0 ELSE Len(s) - off)
               ELSE lim) |-> s[off + i]]

\* ids of the orders that pass the filter of ListOrders; userId 0 is nil
Filtered(userId) ==
    {o \in DOMAIN orders : userId = 0 \/ orders[o].userId = userId}

\* GetOrderByID: First(&order, id)
GetOrderByID(p, id) ==
    /\ Accepts(p)
    /\ proc' = [proc EXCEPT ![p] =
          IF id \in DOMAIN orders
          THEN [op |-> "GetOrderByID", pc |-> "preload", id |-> id,
                order |-> orders[id], items |-> {}, err |-> NoError]
          ELSE [op |-> "GetOrderByID", pc |-> "done", id |-> id,
                order |-> NoOrder, items |-> {},
                err |-> [msg |-> "order not found", cause |-> "nil"]]]
    /\ UNCHANGED <<cb, now, calls, last, onlyNotFound, orders, items, orderSeq, itemSeq>>

\* GetOrderByID: Preload("Items") runs its own query
GetOrderByID_preload(p) ==
    /\ proc[p].op = "GetOrderByID" /\ proc[p].pc = "preload"
    /\ proc' = [proc EXCEPT ![p] =
          [@ EXCEPT !.pc = "done", !.items = ItemsOf(proc[p].id)]]
    /\ UNCHANGED <<cb, now, calls, last, onlyNotFound, orders, items, orderSeq, itemSeq, started>>

\* repository ListOrders after Count(&total)
ListOrders_count(userId, page, perPage) ==
    [op |-> "ListOrders", pc |-> "find", userId |-> userId,
     page |-> page, perPage |-> perPage,
     total |-> Cardinality(Filtered(userId)), orders |-> << >>,
     items |-> {}, err |-> NoError]

\* ListOrders: Count(&total)
ListOrders(p, userId, page, perPage) ==
    /\ Accepts(p)
    /\ proc' = [proc EXCEPT ![p] = ListOrders_count(userId, page, perPage)]
    /\ UNCHANGED <<cb, now, calls, last, onlyNotFound, orders, items, orderSeq, itemSeq>>

\* ListOrders: Offset((page - 1) * perPage).Limit(perPage).Order("id desc")
\* .Find(&orders); Preload is skipped when no order was found
ListOrders_find(p) ==
    /\ proc[p].op = "ListOrders" /\ proc[p].pc = "find"
    /\ LET q == proc[p]
           ids == OffsetLimit(OrderByIdDesc(Filtered(q.userId)),
                              (q.page - 1) * q.perPage, q.perPage)
       IN proc' = [proc EXCEPT ![p] =
             [q EXCEPT !.orders = [i \in 1..Len(ids) |-> orders[ids[i]]],
                       !.pc = IF Len(ids) = 0 THEN "done" ELSE "preload"]]
    /\ UNCHANGED <<cb, now, calls, last, onlyNotFound, orders, items, orderSeq, itemSeq, started>>

\* ListOrders: Preload("Items") queries the items of the orders found
ListOrders_preload(p) ==
    /\ proc[p].op = "ListOrders" /\ proc[p].pc = "preload"
    /\ LET q == proc[p]
           ids == {q.orders[i].id : i \in 1..Len(q.orders)}
       IN proc' = [proc EXCEPT ![p] =
             [q EXCEPT !.pc = "done",
                       !.items = UNION {ItemsOf(o) : o \in ids}]]
    /\ UNCHANGED <<cb, now, calls, last, onlyNotFound, orders, items, orderSeq, itemSeq, started>>

\* ids the readers ask for: every id the sequence can hand out
OrderIds == 1..MaxOrders
\* filters and pages the listers ask for; user id 0 stands for no filter
UserFilters == {0} \cup UserIds
Pages == {1, 2}
PerPages == {1, 10}

OrderNext ==
    \/ \E p \in Procs, req \in CreateOrderRequest : CreateOrder(p, req)
    \/ \E p \in Procs, err \in UserReplies : CreateOrder_ensureUserExists(p, err)
    \/ \E p \in Procs : CreateOrder_callProduct(p)
    \/ \E p \in Procs, reply \in ProductReplies :
          CreateOrder_ensureProductExists(p, reply)
    \/ \E p \in Procs, ok \in BOOLEAN : Repo_CreateOrder_order(p, ok)
    \/ \E p \in Procs, ok \in BOOLEAN : Repo_CreateOrder_item(p, ok)
    \/ \E p \in Procs, ok \in BOOLEAN : Repo_CreateOrder_commit(p, ok)
    \/ \E p \in Procs, id \in OrderIds : GetOrderByID(p, id)
    \/ \E p \in Procs : GetOrderByID_preload(p)
    \/ \E p \in Procs, userId \in UserFilters, page \in Pages, perPage \in PerPages :
          ListOrders(p, userId, page, perPage)
    \/ \E p \in Procs : ListOrders_find(p)
    \/ \E p \in Procs : ListOrders_preload(p)

Spec == Init /\ [][OrderNext]_vars

(***************************************************************************)
(* AddOrderItem, RemoveOrderItem and UpdateOrderStatus                     *)
(***************************************************************************)
\* sumItemsTotal over the items of a reloaded order
RECURSIVE sumItemsTotal(_)
sumItemsTotal(rows) ==
    IF rows = {} THEN 0
    ELSE LET it == CHOOSE r \in rows : TRUE
         IN (IF it.totalPrice > 0 THEN it.totalPrice
             ELSE it.unitPrice * it.quantity) + sumItemsTotal(rows \ {it})

\* mutant: the new total is the stored total moved by the item just added
updatedTotal_Incremental(q) ==
    calculateOrderTotal(q.order.total + q.item.totalPrice, 0, 0)

\* the total AddOrderItem and RemoveOrderItem compute from the reloaded order
updatedTotal(q) ==
    calculateOrderTotal(sumItemsTotal(q.items), q.order.shippingCost,
                        q.order.discount)

ErrOrderNotFound == [msg |-> "order not found", cause |-> "nil"]
ErrOrderItemNotFound == [msg |-> "order item not found", cause |-> "nil"]

NoItem == [id |-> 0, totalPrice |-> 0]

\* a call of AddOrderItem, RemoveOrderItem or UpdateOrderStatus has returned:
\* its result and its history (the item row it wrote or deleted, the total
\* it found stored and the total it wrote)
MutationReturned(q, err) ==
    [op |-> q.op, pc |-> "done", err |-> err, orderId |-> q.orderId,
     itemId |-> q.itemId, item |-> q.item, mutated |-> q.mutated, prevTotal |-> q.order.total,
     wroteTotal |-> q.wroteTotal]

\* the use case has mutated the store and calls orderRepo.GetOrderByID
Mutated(q) == [q EXCEPT !.pc = "first", !.mutated = TRUE]

\* mutant: the insert also moves the order's rows of the same product to the
\* new unit price
insertItem_Reprices(rows, row) ==
    {IF r.orderId = row.orderId /\ r.productId = row.productId
     THEN [r EXCEPT !.unitPrice = row.unitPrice,
                    !.totalPrice = row.unitPrice * r.quantity]
     ELSE r : r \in rows} \cup {row}

\* table order_items after Create(item)
insertItem(rows, row) == rows \cup {row}

\* mutant: the delete matches the item id alone
matchItem_AnyOrder(rows, orderId, itemId) ==
    {it \in rows : it.id = itemId /\ ~it.deleted}

\* the rows Where("id = ? AND order_id = ?", itemId, orderId) matches; a
\* soft-deleted row matches no query
matchItem(rows, orderId, itemId) ==
    {it \in rows : it.id = itemId /\ it.orderId = orderId /\ ~it.deleted}

\* the domain.OrderItem AddOrderItem builds from the validated product
AddOrderItem_item(q, unitPrice) ==
    [productId |-> q.productId, quantity |-> q.quantity,
     unitPrice |-> unitPrice, totalPrice |-> unitPrice * q.quantity]

\* AddOrderItem after ensureProductExists returned e
AddOrderItem_afterProduct(q, e, reply) ==
    IF e # NoError THEN MutationReturned(q, e)
    ELSE [q EXCEPT !.pc = "insert",
                   !.item = AddOrderItem_item(q, reply.price) @@ [id |-> 0]]

\* AddOrderItem enters and ensureProductExists issues GetProductByID
AddOrderItem(p, orderId, productId, quantity) ==
    /\ Accepts(p)
    /\ LET r == beforeRequest(cb[BreakerOf("product")], now)
           q == [op |-> "AddOrderItem", pc |-> "product_call",
                 orderId |-> orderId, productId |-> productId,
                 quantity |-> quantity, generation |-> r.generation,
                 itemId |-> 0, item |-> NoItem, order |-> [id |-> 0, total |-> 0],
                 items |-> {}, err |-> NoError,
                 mutated |-> FALSE, wroteTotal |-> FALSE]
       IN /\ cb' = [cb EXCEPT ![BreakerOf("product")] = r.cb]
          /\ proc' = [proc EXCEPT ![p] =
                IF r.err = "nil" THEN q
                ELSE AddOrderItem_afterProduct(
                        q, ensureProductExists(r.err, [present |-> FALSE]),
                        [present |-> FALSE])]
    /\ UNCHANGED <<now, calls, last, onlyNotFound, orders, items, orderSeq, itemSeq>>

\* GetProductByID returns reply to AddOrderItem
AddOrderItem_ensureProductExists(p, reply) ==
    /\ proc[p].op = "AddOrderItem" /\ proc[p].pc = "product_call"
    /\ cb' = [cb EXCEPT ![BreakerOf("product")] =
                 afterRequest(@, proc[p].generation, IsSuccessful(reply.err), now)]
    /\ proc' = [proc EXCEPT ![p] =
          AddOrderItem_afterProduct(@, ensureProductExists(reply.err, reply), reply)]
    /\ UNCHANGED <<now, calls, last, onlyNotFound, orders, items, orderSeq, itemSeq, started>>

\* mutant: order_items.order_id carries no foreign key
references_orders_Unchecked(orderId) == TRUE

\* order_id int not null references orders(id): the row may be inserted
references_orders(orderId) == orderId \in DOMAIN orders

\* repository AddOrderItem: Omit("id").Create(item) in its own transaction;
\* order_items.order_id references orders(id), so the insert fails for an
\* order that does not exist (the sequence value is consumed all the same)
Repo_AddOrderItem(p) ==
    /\ proc[p].op = "AddOrderItem" /\ proc[p].pc = "insert"
    /\ LET q == proc[p]
           id == itemSeq + 1
           row == ItemRow(id, q.orderId, q.item, "add")
       IN /\ itemSeq' = id
          /\ IF references_orders(q.orderId)
             THEN /\ items' = insertItem(items, row)
                  /\ proc' = [proc EXCEPT ![p] = Mutated([q EXCEPT !.item = row])]
             ELSE /\ items' = items
                  /\ proc' = [proc EXCEPT ![p] =
                        MutationReturned(q, [msg |-> "db", cause |-> "foreign key"])]
    /\ UNCHANGED <<cb, now, calls, last, onlyNotFound, orders, orderSeq, started>>

\* RemoveOrderItem enters; repository RemoveOrderItem:
\* Where("id = ? AND order_id = ?").Delete(&OrderItem{}), a soft delete
RemoveOrderItem(p, orderId, itemId) ==
    /\ Accepts(p)
    /\ LET q == [op |-> "RemoveOrderItem", pc |-> "delete", orderId |-> orderId,
                 itemId |-> itemId, item |-> NoItem, order |-> [id |-> 0, total |-> 0],
                 items |-> {}, err |-> NoError,
                 mutated |-> FALSE, wroteTotal |-> FALSE]
           hit == matchItem(items, orderId, itemId)
       IN IF hit = {}
          THEN /\ items' = items
               /\ proc' = [proc EXCEPT ![p] =
                     MutationReturned(q, ErrOrderItemNotFound)]
          ELSE /\ items' = (items \ hit)
                               \cup {[it EXCEPT !.deleted = TRUE] : it \in hit}
               /\ proc' = [proc EXCEPT ![p] =
                     Mutated([q EXCEPT !.item = CHOOSE it \in hit : TRUE])]
    /\ UNCHANGED <<cb, now, calls, last, onlyNotFound, orders, orderSeq, itemSeq>>

\* mutant: the status only moves forward along pending, paid, shipped,
\* delivered, canceled
updateStatus_ForwardOnly(row, status) ==
    LET rank(st) == CASE st = "pending" -> 1 [] st = "paid" -> 2
                      [] st = "shipped" -> 3 [] st = "delivered" -> 4
                      [] OTHER -> 5
    IN IF rank(status) >= rank(row.status)
       THEN [row EXCEPT !.status = status] ELSE row

\* the row of orders after Update("status", status)
updateStatus(row, status) == [row EXCEPT !.status = status]

\* UpdateOrderStatus enters; repository UpdateOrderStatus:
\* Where("id = ?").Update("status", status); the call remembers the status
\* it asked for and the one it found (history)
UpdateOrderStatus(p, orderId, status) ==
    /\ Accepts(p)
    /\ LET q == [op |-> "UpdateOrderStatus", pc |-> "update", orderId |-> orderId,
                 itemId |-> 0, item |-> NoItem, order |-> [id |-> 0, total |-> 0],
                 items |-> {}, err |-> NoError,
                 mutated |-> FALSE, wroteTotal |-> FALSE,
                 status |-> status,
                 from |-> IF orderId \in DOMAIN orders
                          THEN orders[orderId].status ELSE "none"]
       IN IF orderId \notin DOMAIN orders
          THEN /\ orders' = orders
               /\ proc' = [proc EXCEPT ![p] = MutationReturned(q, ErrOrderNotFound)]
          ELSE /\ orders' = [orders EXCEPT ![orderId] = updateStatus(@, status)]
               /\ proc' = [proc EXCEPT ![p] = Mutated(q)]
    /\ UNCHANGED <<cb, now, calls, last, onlyNotFound, items, orderSeq, itemSeq>>

Mutations == {"AddOrderItem", "RemoveOrderItem", "UpdateOrderStatus"}

\* a statement failed in the database (connection lost, context cancelled)
DBError(stmt) == [msg |-> "db", cause |-> stmt]

\* mutant: a failed reload or total write takes the item mutation back
itemsAfterFailure_Undone(rows, q) ==
    CASE q.op = "AddOrderItem" -> {r \in rows : r.id # q.item.id}
      [] q.op = "RemoveOrderItem" ->
            {IF r.id = q.item.id THEN [r EXCEPT !.deleted = FALSE] ELSE r :
                r \in rows}
      [] OTHER -> rows

\* table order_items after the use case returned the error of a reload or
\* of a total write: the mutation ran in a transaction of its own that has
\* committed, and the use case returns without compensating it
itemsAfterFailure(rows, q) == rows

\* orderRepo.GetOrderByID after the mutation: First(&order, id); ok = FALSE
\* is a database error
Reload_first(p, ok) ==
    /\ proc[p].op \in Mutations /\ proc[p].pc = "first"
    /\ LET q == proc[p]
       IN /\ proc' = [proc EXCEPT ![p] =
                IF ~ok THEN MutationReturned(q, DBError("select order"))
                ELSE IF q.orderId \in DOMAIN orders
                THEN [q EXCEPT !.pc = "preload", !.order = orders[q.orderId]]
                ELSE MutationReturned(q, ErrOrderNotFound)]
          /\ items' = IF ~ok THEN itemsAfterFailure(items, q) ELSE items
    /\ UNCHANGED <<cb, now, calls, last, onlyNotFound, orders, orderSeq, itemSeq, started>>

\* orderRepo.GetOrderByID after the mutation: Preload("Items");
\* UpdateOrderStatus returns the reloaded order
Reload_preload(p) ==
    /\ proc[p].op \in Mutations /\ proc[p].pc = "preload"
    /\ LET q == [proc[p] EXCEPT !.items = ItemsOf(proc[p].orderId)]
       IN proc' = [proc EXCEPT ![p] =
             IF q.op = "UpdateOrderStatus" THEN MutationReturned(q, NoError)
             ELSE [q EXCEPT !.pc = "total"]]
    /\ UNCHANGED <<cb, now, calls, last, onlyNotFound, orders, items, orderSeq, itemSeq, started>>

\* repository UpdateOrderTotal: Where("id = ?").Update("total", total);
\* ok = FALSE is a database error
Repo_UpdateOrderTotal(p, ok) ==
    /\ proc[p].op \in Mutations /\ proc[p].pc = "total"
    /\ LET q == proc[p]
       IN IF ~ok
          THEN /\ orders' = orders
               /\ items' = itemsAfterFailure(items, q)
               /\ proc' = [proc EXCEPT ![p] =
                     MutationReturned(q, DBError("update total"))]
          ELSE IF q.order.id \notin DOMAIN orders
          THEN /\ orders' = orders
               /\ items' = items
               /\ proc' = [proc EXCEPT ![p] = MutationReturned(q, ErrOrderNotFound)]
          ELSE /\ orders' = [orders EXCEPT ![q.order.id].total = updatedTotal(q)]
               /\ items' = items
               /\ proc' = [proc EXCEPT ![p] =
                     MutationReturned([q EXCEPT !.wroteTotal = TRUE], NoError)]
    /\ UNCHANGED <<cb, now, calls, last, onlyNotFound, orderSeq, itemSeq, started>>

\* the requests of the item operations: CreateOrder for one item (of
\* quantity 2), answered at price 20, and items added in quantity 1 at
\* price 5
SeedRequests == {r \in CreateOrderRequest : Len(r.items) = 1}
SeedReplies == {[err |-> "nil", present |-> TRUE, price |-> 20]}
AddQuantities == {1}
AddReplies ==
    {[err |-> "nil", present |-> TRUE, price |-> 5],
     [err |-> "NotFound", present |-> FALSE, price |-> 0]}
\* order ids and item ids the item operations name: those that can exist
\* and one that cannot
TargetOrderIds == 1..(MaxOrders + 1)
TargetItemIds == 1..(MaxItems + 2)
Statuses == {"paid", "canceled"}

ItemsNext ==
    \/ \E p \in Procs, req \in SeedRequests : CreateOrder(p, req)
    \/ \E p \in Procs : CreateOrder_ensureUserExists(p, "nil")
    \/ \E p \in Procs : CreateOrder_callProduct(p)
    \/ \E p \in Procs, reply \in SeedReplies :
          CreateOrder_ensureProductExists(p, reply)
    \/ \E p \in Procs : Repo_CreateOrder_order(p, TRUE)
    \/ \E p \in Procs : Repo_CreateOrder_item(p, TRUE)
    \/ \E p \in Procs : Repo_CreateOrder_commit(p, TRUE)
    \/ \E p \in Procs, o \in TargetOrderIds, q \in AddQuantities :
          AddOrderItem(p, o, 7, q)
    \/ \E p \in Procs, reply \in AddReplies :
          AddOrderItem_ensureProductExists(p, reply)
    \/ \E p \in Procs : Repo_AddOrderItem(p)
    \/ \E p \in Procs, o \in TargetOrderIds, i \in TargetItemIds :
          RemoveOrderItem(p, o, i)
    \/ \E p \in Procs, o \in TargetOrderIds, st \in Statuses :
          UpdateOrderStatus(p, o, st)
    \/ \E p \in Procs : Reload_first(p, TRUE)
    \/ \E p \in Procs : Reload_preload(p)
    \/ \E p \in Procs : Repo_UpdateOrderTotal(p, TRUE)

\* the order service serving item operations on orders it created
SpecItems == Init /\ [][ItemsNext]_vars

(***************************************************************************)
(* gRPC handler (OrderGRPCHandler): request validation before the use case *)
(***************************************************************************)
ErrValidation == [msg |-> "validation failed", cause |-> "nil"]

\* validate.Struct(&createReq): UserID required,gt=0; ShippingCost gte=0;
\* Discount gte=0; Items required,min=1,dive with ProductID and Quantity
\* required,gt=0
validate_CreateOrderRequest(req) ==
    /\ req.userId > 0
    /\ req.shippingCost >= 0
    /\ req.discount >= 0
    /\ Len(req.items) >= 1
    /\ \A i \in 1..Len(req.items) :
          req.items[i].productId > 0 /\ req.items[i].quantity > 0

\* mutant: the quantity of an added item is not validated
validate_AddOrderItemRequest_AnyQuantity(orderId, productId, quantity) ==
    orderId > 0 /\ productId > 0

\* validate.Struct(&addReq): OrderID, ProductID, Quantity required,gt=0
validate_AddOrderItemRequest(orderId, productId, quantity) ==
    orderId > 0 /\ productId > 0 /\ quantity > 0

OrderStatuses == {"pending", "paid", "shipped", "delivered", "canceled"}

\* validate.Struct(&updateReq): OrderID required,gt=0; Status
\* required,oneof=pending paid shipped delivered canceled
validate_UpdateOrderStatusRequest(orderId, status) ==
    orderId > 0 /\ status \in OrderStatuses

\* handler CreateOrder: a request that fails validation returns the
\* validation error and never reaches the use case
Handler_CreateOrder(p, req) ==
    IF validate_CreateOrderRequest(req)
    THEN CreateOrder(p, req)
    ELSE /\ Accepts(p)
         /\ proc' = [proc EXCEPT ![p] =
               Returned(NewCreateOrder(req), ErrValidation, 0)]
         /\ UNCHANGED <<cb, now, calls, last, onlyNotFound, orders, items,
                        orderSeq, itemSeq>>

\* handler AddOrderItem
Handler_AddOrderItem(p, orderId, productId, quantity) ==
    IF validate_AddOrderItemRequest(orderId, productId, quantity)
    THEN AddOrderItem(p, orderId, productId, quantity)
    ELSE /\ Accepts(p)
         /\ proc' = [proc EXCEPT ![p] =
               MutationReturned(
                  [op |-> "AddOrderItem", orderId |-> orderId, itemId |-> 0,
                   item |-> NoItem, order |-> [id |-> 0, total |-> 0],
                   mutated |-> FALSE, wroteTotal |-> FALSE], ErrValidation)]
         /\ UNCHANGED <<cb, now, calls, last, onlyNotFound, orders, items,
                        orderSeq, itemSeq>>

\* handler UpdateOrderStatus
Handler_UpdateOrderStatus(p, orderId, status) ==
    IF validate_UpdateOrderStatusRequest(orderId, status)
    THEN UpdateOrderStatus(p, orderId, status)
    ELSE /\ Accepts(p)
         /\ proc' = [proc EXCEPT ![p] =
               MutationReturned(
                  [op |-> "UpdateOrderStatus", orderId |-> orderId,
                   itemId |-> 0, item |-> NoItem,
                   order |-> [id |-> 0, total |-> 0],
                   mutated |-> FALSE, wroteTotal |-> FALSE], ErrValidation)]
         /\ UNCHANGED <<cb, now, calls, last, onlyNotFound, orders, items,
                        orderSeq, itemSeq>>

\* requests as they arrive at the handler: a valid CreateOrder for one item
\* of product 7 in quantity 2, and the same with quantity 0 or with a
\* negative shippingCost
HandlerRequests ==
    {[userId |-> 1, shippingCost |-> c, discount |-> 5,
      items |-> <<[productId |-> 7, quantity |-> q]>>] :
        c \in {10}, q \in {2}}
    \cup {[userId |-> 1, shippingCost |-> 10, discount |-> 5,
           items |-> <<[productId |-> 7, quantity |-> 0]>>],
          [userId |-> 1, shippingCost |-> -1, discount |-> 5,
           items |-> <<[productId |-> 7, quantity |-> 2]>>]}
HandlerQuantities == {0, 1}
HandlerStatuses == OrderStatuses \cup {"refunded"}

HandlerNext ==
    \/ \E p \in Procs, req \in HandlerRequests : Handler_CreateOrder(p, req)
    \/ \E p \in Procs : CreateOrder_ensureUserExists(p, "nil")
    \/ \E p \in Procs : CreateOrder_callProduct(p)
    \/ \E p \in Procs, reply \in SeedReplies :
          CreateOrder_ensureProductExists(p, reply)
    \/ \E p \in Procs : Repo_CreateOrder_order(p, TRUE)
    \/ \E p \in Procs : Repo_CreateOrder_item(p, TRUE)
    \/ \E p \in Procs : Repo_CreateOrder_commit(p, TRUE)
    \/ \E p \in Procs, o \in TargetOrderIds, q \in HandlerQuantities :
          Handler_AddOrderItem(p, o, 7, q)
    \/ \E p \in Procs, reply \in AddReplies :
          AddOrderItem_ensureProductExists(p, reply)
    \/ \E p \in Procs : Repo_AddOrderItem(p)
    \/ \E p \in Procs, o \in TargetOrderIds, i \in TargetItemIds :
          RemoveOrderItem(p, o, i)
    \/ \E p \in Procs, o \in TargetOrderIds, st \in HandlerStatuses :
          Handler_UpdateOrderStatus(p, o, st)
    \/ \E p \in Procs, ok \in BOOLEAN : Reload_first(p, ok)
    \/ \E p \in Procs : Reload_preload(p)
    \/ \E p \in Procs, ok \in BOOLEAN : Repo_UpdateOrderTotal(p, ok)

\* the order service behind its gRPC handler, with database errors on the
\* reload and the total write
SpecHandler == Init /\ [][HandlerNext]_vars

(***************************************************************************)
(* ListOrders through the handler, over a store that holds orders          *)
(***************************************************************************)
\* handler ListOrders: page 0 becomes 1
ListOrders_page(page) == IF page = 0 THEN 1 ELSE page

\* handler ListOrders: perPage 0 becomes 10
ListOrders_perPage(perPage) == IF perPage = 0 THEN 10 ELSE perPage

\* handler ListOrders: defaults, then use case and repository ListOrders up
\* to Count(&total); the call remembers the page and perPage of the request
\* (history)
Handler_ListOrders(p, userId, page, perPage) ==
    /\ Accepts(p)
    /\ proc' = [proc EXCEPT ![p] =
          ListOrders_count(userId, ListOrders_page(page),
                           ListOrders_perPage(perPage))
             @@ [reqPage |-> page, reqPerPage |-> perPage]]
    /\ UNCHANGED <<cb, now, calls, last, onlyNotFound, orders, items, orderSeq, itemSeq>>

MaxListed == 3
ListUserIds == {1, 2}

\* the store after n CreateOrder calls of users us[1] .. us[n], each for
\* product 7 in quantity 2 at price 20 with shippingCost 10 and discount 5
ListedOrders(us) ==
    [o \in 1..Len(us) |->
        [userId |-> us[o], shippingCost |-> 10, discount |-> 5, total |-> 45,
         status |-> "pending", id |-> o, rows |-> 2]]
ListedItems(us) ==
    {ItemRow(2 * (o - 1) + k, o,
             [productId |-> 7, quantity |-> 2, unitPrice |-> 20,
              totalPrice |-> 40], "create") :
        o \in 1..Len(us), k \in 1..2}

\* the order service with up to MaxListed orders in its store
ListInit ==
    /\ BreakerInit
    /\ \E n \in 0..MaxListed : \E us \in [1..n -> ListUserIds] :
          /\ orders = ListedOrders(us)
          /\ items = ListedItems(us)
          /\ orderSeq = n
          /\ itemSeq = 2 * n
    /\ proc = [p \in Procs |-> IdleProc]
    /\ started = 0

\* filters, pages and page sizes of the requests; 0 is the absent value
ListFilters == {0} \cup ListUserIds
ListPages == {0, 1, 2}
ListPerPages == {0, 1, 2}

ListNext ==
    \/ \E p \in Procs, userId \in ListFilters, page \in ListPages,
          perPage \in ListPerPages :
          Handler_ListOrders(p, userId, page, perPage)
    \/ \E p \in Procs : ListOrders_find(p)
    \/ \E p \in Procs : ListOrders_preload(p)

\* ListOrders as a function of the store and of its request
SpecList == ListInit /\ [][ListNext]_vars

(***************************************************************************)
(* Properties of CreateOrder (checked under Spec)                          *)
(***************************************************************************)
\* the CreateOrder calls being handled or just returned
Creating == {p \in Procs : proc[p].op = "CreateOrder"}

Max0(x) == IF x < 0 THEN 0 ELSE x

\* sum of price * quantity over the first n items of req
RECURSIVE PricedItems(_, _, _)
PricedItems(req, prices, n) ==
    IF n = 0 THEN 0
    ELSE PricedItems(req, prices, n - 1) + prices[n] * req.items[n].quantity

\* the total the contract asks for, from the request and the prices the
\* product service returned during the call
ContractTotal(req, prices) ==
    Max0(PricedItems(req, prices, Len(req.items))
            + Max0(req.shippingCost) - Max0(req.discount))

\* worker p returns from a successful CreateOrder in this step
CreateOrderSucceeds(p) ==
    /\ proc[p].op = "CreateOrder" /\ proc[p].pc = "commit"
    /\ proc'[p].pc = "done" /\ proc'[p].err = NoError

\* C1: whenever a CreateOrder call whose user and products all validated
\* commits its store write, the order row it leaves in the store carries the
\* total max(0, sum of returned price * quantity + max(0, shippingCost)
\* - max(0, discount)), over the prices the product service returned to
\* this call.
C1_PersistedTotal ==
    [][\A p \in Procs :
          CreateOrderSucceeds(p) =>
             /\ Len(proc[p].returned) = Len(proc[p].req.items)
             /\ proc'[p].orderId \in DOMAIN orders'
             /\ orders'[proc'[p].orderId].total =
                   ContractTotal(proc[p].req, proc[p].returned)]_vars

\* C1 witness: the order of the example (shippingCost 10, discount 5, one
\* item of quantity 2 at price 20) is stored with total 45
C1_Witness ==
    \E p \in Creating :
       /\ proc[p].pc = "done" /\ proc[p].err = NoError
       /\ proc[p].orderId \in DOMAIN orders
       /\ LET o == orders[proc[p].orderId]
          IN /\ o.shippingCost = 10 /\ o.discount = 5 /\ o.total = 45
             /\ \A it \in ItemsOf(o.id) : it.quantity = 2 /\ it.unitPrice = 20
             /\ ItemsOf(o.id) # {}

\* C2: a CreateOrder call whose user validation failed has returned an
\* error without issuing any product validation call and without any
\* attempt to write to the store.
C2_UserFailureWritesNothing ==
    \A p \in Creating :
       proc[p].userValid = "no" =>
          /\ proc[p].pc = "done"
          /\ proc[p].err.msg = "user not found"
          /\ proc[p].issued = 0
          /\ ~proc[p].wrote
          /\ proc[p].allocated = 0

\* C2 witness: the user breaker rejected the validation call of a
\* CreateOrder, which returned with the store still empty
C2_Witness ==
    \E p \in Creating :
       /\ proc[p].pc = "done" /\ proc[p].userValid = "no"
       /\ proc[p].err.cause = "ErrOpenState"
       /\ orders = << >> /\ items = {}

\* the product ids of the first n items of req
AskedInOrder(req, n) == [i \in 1..n |-> req.items[i].productId]

\* C3: the product validation calls of a CreateOrder are issued for the
\* items in request order, each one after the previous one returned; a call
\* whose validation failed at position k has returned an error having
\* issued exactly k validation calls and without any attempt to write to the
\* store.
C3_FirstFailureAborts ==
    \A p \in Creating :
       /\ proc[p].pc \in {"product", "product_call"} =>
             /\ Len(proc[p].asked) <= Len(proc[p].req.items)
             /\ proc[p].asked = AskedInOrder(proc[p].req, Len(proc[p].asked))
             /\ Len(proc[p].asked) = Len(proc[p].returned)
                    + (IF proc[p].pc = "product_call" THEN 1 ELSE 0)
       /\ proc[p].pc # "start" /\ proc[p].failedAt # 0 =>
             /\ proc[p].pc = "done"
             /\ proc[p].err.msg = "product not found"
             /\ proc[p].issued = proc[p].failedAt
             /\ ~proc[p].wrote
             /\ proc[p].allocated = 0

\* C3 witness: the first item validated, the product breaker rejected the
\* call for the second one, and the call returned with the store empty
C3_Witness ==
    \E p \in Creating :
       /\ proc[p].pc = "done" /\ proc[p].failedAt = 2
       /\ proc[p].err.cause = "ErrOpenState"
       /\ orders = << >> /\ items = {}

\* the item rows the repository's CreateOrder wrote for order o
CreatedRows(rows, o) == {it \in rows : it.orderId = o /\ it.origin = "create"}

\* a reader that found order row r together with the item rows found
\* every row CreateOrder wrote for it
SeesWholeOrder(r, found) == Cardinality(CreatedRows(found, r.id)) = r.rows

\* C4: the rows written inside a CreateOrder transaction stay out of the
\* tables until it commits; a call that failed leaves neither its order row
\* nor any of its item rows; every order row in the table has all the item
\* rows CreateOrder wrote for it; and every GetOrderByID or ListOrders that
\* returned an order returned it with all of them.
C4_AtomicCreate ==
    /\ \A p \in Creating :
          /\ proc[p].pc \in {"persist_items", "commit"} =>
                /\ \A r \in proc[p].tx.orders : r.id \notin DOMAIN orders
                /\ proc[p].tx.items \cap items = {}
          /\ proc[p].pc = "done" /\ proc[p].err # NoError =>
                /\ proc[p].allocated \notin DOMAIN orders
                /\ \A it \in items : it.orderId # proc[p].allocated
    /\ \A o \in DOMAIN orders : SeesWholeOrder(orders[o], items)
    /\ \A it \in items : it.orderId \in DOMAIN orders
    /\ \A p \in Procs :
          /\ proc[p].op = "GetOrderByID" /\ proc[p].pc = "done"
                /\ proc[p].err = NoError =>
                SeesWholeOrder(proc[p].order, proc[p].items)
          /\ proc[p].op = "ListOrders" /\ proc[p].pc = "done" =>
                \A i \in 1..Len(proc[p].orders) :
                   SeesWholeOrder(proc[p].orders[i], proc[p].items)

\* C4 witness: a CreateOrder failed on an item insert after the order row
\* had been inserted, a GetOrderByID for the id it had been given found no
\* order, and both tables are empty
C4_Witness ==
    \E p \in Creating, r \in Procs :
       /\ proc[p].pc = "done" /\ proc[p].err.cause = "insert item"
       /\ proc[p].allocated # 0
       /\ proc[r].op = "GetOrderByID" /\ proc[r].pc = "done"
       /\ proc[r].id = proc[p].allocated
       /\ proc[r].err # NoError
       /\ orders = << >> /\ items = {}

(***************************************************************************)
(* Properties of the breaker (checked under SpecBreaker)                   *)
(***************************************************************************)
\* the breaker of the exercised interceptor
B == cb[Target]

\* the breaker as the latest step found it, after its call of currentState
Entry == currentState(last.pre, now)

\* the latest step completed a call that the breaker counted
Counted == last.op = "after" /\ Entry.generation = last.generation

\* the latest step issued a call and the breaker rejected it: req never ran
Rejected ==
    /\ last.op = "before"
    /\ last.out \in {"ErrOpenState", "ErrTooManyRequests"}
    /\ calls[last.c].pc = "idle"

CountsCleared(b) ==
    /\ b.Requests = 0 /\ b.TotalSuccesses = 0 /\ b.TotalFailures = 0
    /\ b.ConsecutiveSuccesses = 0 /\ b.ConsecutiveFailures = 0

\* a call issued at time t would be rejected with ErrOpenState
RejectsAt(t) == beforeRequest(B, t).err = "ErrOpenState"

\* the latest step completed the MinRequests-th call of a closed window, and
\* at least ceil(MinRequests * FailureRatio) of the window's calls failed
NthCompleted ==
    /\ Counted
    /\ Entry.state = "closed"
    /\ Entry.TotalSuccesses + Entry.TotalFailures + 1 = MinRequests
    /\ (Entry.TotalFailures + (IF isBreakerFailure(last.out) THEN 1 ELSE 0))
          * FailureRatioDen >= MinRequests * FailureRatioNum

OpenRejects ==
    (/\ last.op = "before"
     /\ last.pre.state = "open"
     /\ now - (last.pre.expiry - Timeout) < Timeout)
    => /\ last.out = "ErrOpenState"
       /\ calls[last.c].pc = "idle"
       /\ B = last.pre

\* the latest step moved the breaker out of the open state
LeftOpen == last.op # "tick" /\ last.pre.state = "open" /\ B.state # "open"

\* C6 as stated: an open breaker rejects every call issued before Timeout has
\* elapsed, and leaves the open state only to half-open and only on a call
\* made after Timeout has elapsed.
C6_OnlyOnNewCall ==
    /\ OpenRejects
    /\ LeftOpen => /\ B.state = "half-open"
                   /\ last.op = "before"
                   /\ now - (last.pre.expiry - Timeout) > Timeout

\* C6 as amended: an open breaker rejects every call issued before Timeout
\* has elapsed, and leaves the open state only to half-open and only after
\* Timeout has elapsed, either on a call made then or on the completion,
\* then, of a call that was admitted before the breaker opened.
C6_OpenUntilTimeout ==
    /\ OpenRejects
    /\ LeftOpen => /\ B.state = "half-open"
                   /\ now - (last.pre.expiry - Timeout) > Timeout
                   /\ \/ last.op = "before"
                      \/ /\ last.op = "after"
                         /\ last.generation < last.pre.generation

C6_Witness ==
    /\ last.op = "before"
    /\ last.pre.state = "open"
    /\ now - (last.pre.expiry - Timeout) = Timeout - 1
    /\ last.out = "ErrOpenState"
    /\ calls[last.c].pc = "idle"

\* calls admitted in the current half-open period: those still in flight and
\* those completed (a completed probe that failed ended the period)
ProbesAdmitted ==
    Cardinality({c \in Callers : /\ calls[c].pc = "inflight"
                                 /\ calls[c].generation = B.generation})
       + B.TotalSuccesses

\* C7: a half-open breaker admits at most MaxRequests calls in one half-open
\* period, however many callers arrive; a call beyond the budget is rejected
\* and never invoked.
C7_HalfOpenBudget ==
    /\ B.state = "half-open" => ProbesAdmitted <= MaxRequests
    /\ (/\ last.op = "before"
        /\ Entry.state = "half-open"
        /\ Entry.Requests >= MaxRequests)
       => Rejected /\ B = Entry

C7_Witness ==
    /\ B.state = "half-open"
    /\ Rejected
    /\ last.out = "ErrTooManyRequests"
    /\ Cardinality({c \in Callers : /\ calls[c].pc = "inflight"
                                    /\ calls[c].generation = B.generation})
          = MaxRequests

\* the latest step completed a probe of the current half-open period
ProbeCompleted == Counted /\ Entry.state = "half-open"

\* C8: the completion of a probe as a breaker failure opens the breaker at
\* once, clears every counter and restarts the cool-down, however many
\* probes of the period succeeded before.
C8_ProbeFailureReopens ==
    (ProbeCompleted /\ isBreakerFailure(last.out))
    => /\ B.state = "open"
       /\ CountsCleared(B)
       /\ B.expiry = now + Timeout
       /\ B.generation = Entry.generation + 1

C8_Witness ==
    /\ ProbeCompleted
    /\ isBreakerFailure(last.out)
    /\ Entry.TotalSuccesses >= 1
    /\ B.state = "open"

\* C9: a half-open breaker closes exactly when the MaxRequests-th probe of
\* the period completes without a breaker failure, all earlier ones having
\* succeeded, and clears every counter then; it never closes earlier.
C9_ClosesAfterMaxRequests ==
    /\ (ProbeCompleted /\ IsSuccessful(last.out))
       => IF Entry.TotalSuccesses + 1 = MaxRequests
          THEN B.state = "closed" /\ CountsCleared(B)
          ELSE /\ B.state = "half-open"
               /\ Entry.TotalSuccesses + 1 < MaxRequests
    /\ (last.op # "tick" /\ Entry.state = "half-open" /\ B.state = "closed")
       => /\ ProbeCompleted
          /\ IsSuccessful(last.out)
          /\ Entry.TotalSuccesses + 1 = MaxRequests
          /\ Entry.TotalFailures = 0

C9_Witness ==
    /\ ProbeCompleted
    /\ IsSuccessful(last.out)
    /\ Entry.TotalSuccesses + 1 = MaxRequests
    /\ B.state = "closed"
    /\ B.generation = Entry.generation + 1

\* C10: a NotFound answer never increments TotalFailures, and while every
\* completed call has answered NotFound the breaker stays closed and rejects
\* nothing.
C10_NotFoundNeverTrips ==
    /\ (Counted /\ last.out = "NotFound")
       => /\ B.TotalFailures <= Entry.TotalFailures
          /\ B.state # "open"
          /\ B.state = Entry.state => B.TotalSuccesses = Entry.TotalSuccesses + 1
    /\ onlyNotFound
       => /\ B.state = "closed"
          /\ B.TotalFailures = 0
          /\ ~Rejected

C10_Witness ==
    /\ onlyNotFound
    /\ Counted
    /\ last.out = "NotFound"
    /\ B.TotalSuccesses > MinRequests
    /\ B.state = "closed"


(***************************************************************************)
(* Failure classification (checked under SpecBreaker)                      *)
(***************************************************************************)
\* the status codes of google.golang.org/grpc/codes other than OK
GrpcCodes ==
    {"Canceled", "Unknown", "InvalidArgument", "DeadlineExceeded", "NotFound",
     "AlreadyExists", "PermissionDenied", "ResourceExhausted",
     "FailedPrecondition", "Aborted", "OutOfRange", "Unimplemented",
     "Internal", "Unavailable", "DataLoss", "Unauthenticated"}

\* the outcomes the contract counts as breaker failures
ContractFailures ==
    {"NoStatus", "Unavailable", "DeadlineExceeded", "ResourceExhausted", "Internal"}

\* C11: the classifier answers failure exactly for an error without status
\* and for the codes Unavailable, DeadlineExceeded, ResourceExhausted and
\* Internal, over nil and every status code; and every completed call the
\* breaker counts is counted as a failure exactly in those cases (a call
\* that exceeded its deadline included) and as a success otherwise.
C11_Classifier ==
    /\ \A e \in GrpcCodes \cup Outcomes :
          isBreakerFailure(e) <=> e \in ContractFailures
    /\ Counted =>
          B = IF last.out \in ContractFailures
              THEN onFailure(Entry, now) ELSE onSuccess(Entry, now)

\* C11 witness: a call that returned DeadlineExceeded was counted as a
\* failure of a closed breaker
C11_Witness ==
    /\ Counted /\ last.out = "DeadlineExceeded"
    /\ Entry.state = "closed" /\ B.state = "closed"
    /\ B.TotalFailures = Entry.TotalFailures + 1


(***************************************************************************)
(* Outcomes of the validators (checked under Spec)                         *)
(***************************************************************************)
\* the errors with which cb.Execute rejects a call without running it
BreakerErrors == {"ErrOpenState", "ErrTooManyRequests"}

\* the kind of outcome the caller of a validator reads off the error
OutcomeKind(err) ==
    IF err = NoError THEN "Success"
    ELSE IF err.cause \in BreakerErrors THEN "BreakerRejected"
    ELSE "RemoteFailure"

\* validator calls a CreateOrder has made so far, and those that returned
ValidatorCalls(q) ==
    (IF q.pc = "start" THEN 0 ELSE 1)
       + (IF q.pc = "done" THEN q.issued ELSE Len(q.asked))
ValidatorFailed(q) == q.pc = "done" /\ (q.userValid = "no" \/ q.failedAt # 0)

\* C12: the error a validator hands to CreateOrder reads as BreakerRejected
\* exactly when the remote target was not invoked for that validator call,
\* and as RemoteFailure when it was invoked and the validation failed; every
\* validator call that did not fail invoked the target.
C12_ValidatorOutcomes ==
    \A p \in Creating :
       LET q == proc[p]
       IN /\ ValidatorFailed(q) =>
                /\ OutcomeKind(q.err) \in {"BreakerRejected", "RemoteFailure"}
                /\ (OutcomeKind(q.err) = "BreakerRejected"
                       <=> q.invoked = ValidatorCalls(q) - 1)
                /\ (OutcomeKind(q.err) = "RemoteFailure"
                       <=> q.invoked = ValidatorCalls(q))
          /\ ~ValidatorFailed(q) => q.invoked = ValidatorCalls(q)

\* C12 witness: one CreateOrder returned a remote failure of the product
\* service and another one a rejection by the product breaker
C12_Witness ==
    \E p \in Creating, r \in Creating :
       /\ ValidatorFailed(proc[p]) /\ proc[p].failedAt # 0
       /\ proc[p].err.cause = "Unavailable"
       /\ proc[p].invoked = ValidatorCalls(proc[p])
       /\ ValidatorFailed(proc[r]) /\ proc[r].failedAt # 0
       /\ proc[r].err.cause = "ErrOpenState"
       /\ proc[r].invoked = ValidatorCalls(proc[r]) - 1


(***************************************************************************)
(* The disabled breaker (checked under SpecDisabled)                       *)
(***************************************************************************)
\* C17: with Enabled = false every call is handed to the remote target, the
\* caller gets back what the target answered, no call is rejected, and no
\* breaker state is tracked.
C17_PassThrough ==
    /\ last.op = "before" =>
          last.out = "nil" /\ calls[last.c].pc = "inflight"
    /\ last.op = "after" => last.out = last.remote
    /\ cb = [d \in Deps |-> NewCircuitBreaker(0)]

\* C17 witness: a call reaches the target after MaxAdmitted calls, all the
\* calls completed so far, returned breaker failures
C17_Witness ==
    /\ last.op = "before" /\ last.out = "nil"
    /\ calls[last.c].pc = "inflight"
    /\ last.completed = MaxAdmitted /\ last.failures = MaxAdmitted
    /\ MaxAdmitted >= MinRequests


(***************************************************************************)
(* Independence of the two breakers (checked under Spec)                   *)
(***************************************************************************)
\* worker p takes a step of a user validation call
UserStep(p) ==
    \/ proc[p].pc \in {"idle", "done"} /\ proc'[p].op = "CreateOrder"
    \/ proc[p].op = "CreateOrder" /\ proc[p].pc = "user"

\* worker p takes a step of a product validation call
ProductStep(p) ==
    proc[p].op = "CreateOrder" /\ proc[p].pc \in {"product", "product_call"}

\* C18: a step of a user validation call, whatever its outcome, leaves the
\* product breaker as it was; a step of a product validation call leaves
\* the user breaker as it was; and no other step touches either breaker.
C18_Independent ==
    [][\A p \in Procs :
          proc'[p] # proc[p] =>
             /\ UserStep(p) => cb'["product"] = cb["product"]
             /\ ProductStep(p) => cb'["user"] = cb["user"]
             /\ ~UserStep(p) /\ ~ProductStep(p) => cb' = cb]_vars

\* C18 witness: the user breaker is open after failed user validations
\* while a product call is admitted by a product breaker that is closed and
\* has counted no failure
C18_Witness ==
    /\ cb["user"].state = "open"
    /\ cb["product"].state = "closed"
    /\ cb["product"].TotalFailures = 0
    /\ \E p \in Creating : proc[p].pc = "product_call"


(***************************************************************************)
(* The counters of a shared breaker (checked under SpecBreaker)            *)
(***************************************************************************)
\* the latest step was a step of a call through the interceptor
CallStep == last.op \in {"before", "after"}

\* the latest step admitted its call
Admitted == last.op = "before" /\ last.out = "nil"

\* C19: successes + failures never exceed requests; a step that starts a
\* new generation leaves all counters at zero, up to the request the step
\* itself admits; and a step that stays in the generation lowers none of
\* them.
C19_CountersAsUnit ==
    /\ B.TotalSuccesses + B.TotalFailures <= B.Requests
    /\ CallStep /\ B.generation # last.pre.generation =>
          /\ B.TotalSuccesses = 0 /\ B.TotalFailures = 0
          /\ B.ConsecutiveSuccesses = 0 /\ B.ConsecutiveFailures = 0
          /\ B.Requests = IF Admitted THEN 1 ELSE 0
    /\ CallStep /\ B.generation = last.pre.generation =>
          /\ B.Requests >= last.pre.Requests
          /\ B.TotalSuccesses >= last.pre.TotalSuccesses
          /\ B.TotalFailures >= last.pre.TotalFailures

\* C19 witness: a failure trips the breaker and clears non-zero requests,
\* successes and failures at once while another call is still in flight
C19_Witness ==
    /\ last.op = "after"
    /\ B.generation # last.pre.generation
    /\ last.pre.Requests >= 2 /\ last.pre.TotalSuccesses >= 1
    /\ last.pre.TotalFailures >= 1
    /\ CountsCleared(B)
    /\ \E c \in Callers : calls[c].pc = "inflight"


(***************************************************************************)
(* Properties of the item operations (checked under SpecItems)             *)
(***************************************************************************)
\* sum of totalPrice over a set of item rows
RECURSIVE SumTotalPrice(_)
SumTotalPrice(rows) ==
    IF rows = {} THEN 0
    ELSE LET it == CHOOSE r \in rows : TRUE
         IN it.totalPrice + SumTotalPrice(rows \ {it})

\* the total the contract asks for order o from the rows now persisted
PersistedTotal(o) ==
    Max0(SumTotalPrice(ItemsOf(o)) + Max0(orders[o].shippingCost)
            - Max0(orders[o].discount))

ItemMutations == {"AddOrderItem", "RemoveOrderItem"}

\* worker p returns from a successful AddOrderItem or RemoveOrderItem in
\* this step, which is the write of the total
ItemMutationSucceeds(p) ==
    /\ proc[p].op \in ItemMutations /\ proc[p].pc = "total"
    /\ proc'[p].pc = "done" /\ proc'[p].err = NoError

\* nothing has changed the order or its items since p reloaded them
Undisturbed(p) ==
    /\ proc[p].order.id \in DOMAIN orders
    /\ orders[proc[p].order.id] = proc[p].order
    /\ ItemsOf(proc[p].order.id) = proc[p].items

RemoveEnters(p) ==
    /\ proc[p].pc \in {"idle", "done"} /\ proc'[p] # proc[p]
    /\ proc'[p].op = "RemoveOrderItem"

\* a live item row with id itemId belongs to order orderId
BelongsTo(itemId, orderId) ==
    \E it \in items : it.id = itemId /\ it.orderId = orderId /\ ~it.deleted

\* C14: a RemoveOrderItem(orderId, itemId) for which no live item row with
\* that id belongs to that order returns the error "order item not found"
\* at once, and leaves every order row and every item row as it was.
C14_RemoveForeignItem ==
    [][\A p \in Procs :
          (RemoveEnters(p)
             /\ ~BelongsTo(proc'[p].itemId, proc'[p].orderId)) =>
             /\ proc'[p].pc = "done"
             /\ proc'[p].err = ErrOrderItemNotFound
             /\ ~proc'[p].mutated /\ ~proc'[p].wroteTotal
             /\ orders' = orders /\ items' = items]_vars

\* C14 witness: a RemoveOrderItem named an item of order 1 together with
\* another order id and returned not found; the item is still a live row of
\* order 1, whose total is still 45
C14_Witness ==
    \E p \in Procs, it \in items :
       /\ proc[p].op = "RemoveOrderItem" /\ proc[p].pc = "done"
       /\ proc[p].err = ErrOrderItemNotFound
       /\ it.id = proc[p].itemId /\ it.orderId # proc[p].orderId
       /\ ~it.deleted
       /\ orders[it.orderId].total = 45
       /\ Cardinality(ItemsOf(it.orderId)) = orders[it.orderId].rows


\* the workers whose latest call is an AddOrderItem or RemoveOrderItem on
\* order o
MutatorsOf(o) ==
    {p \in Procs : proc[p].op \in ItemMutations /\ proc[p].orderId = o}

\* two or more AddOrderItem / RemoveOrderItem calls on order o have
\* returned, all with success, and none is still running
AllReturned(o) ==
    /\ Cardinality(MutatorsOf(o)) >= 2
    /\ \A p \in MutatorsOf(o) : proc[p].pc = "done" /\ proc[p].err = NoError

\* C15 as stated: once two or more AddOrderItem / RemoveOrderItem calls on
\* one order have all returned success, the stored total of the order is
\* max(0, sum of totalPrice over its persisted items + shippingCost -
\* discount).
C15_TotalAfterConcurrentMutations ==
    \A o \in DOMAIN orders :
       AllReturned(o) =>
          orders[o].total =
             Max0(SumTotalPrice(ItemsOf(o)) + orders[o].shippingCost
                     - orders[o].discount)

\* C15, the case in which it fails: two AddOrderItem calls on an order
\* with non-negative shippingCost and discount have both returned success,
\* and the stored total differs from the total of the rows persisted (the
\* later UpdateOrderTotal wrote a sum reloaded before the other insert).
C15_LostUpdate ==
    \E o \in DOMAIN orders :
       /\ AllReturned(o)
       /\ \A p \in MutatorsOf(o) : proc[p].op = "AddOrderItem"
       /\ orders[o].shippingCost >= 0 /\ orders[o].discount >= 0
       /\ orders[o].total # PersistedTotal(o)

\* C16: a row of order_items that exists before a step exists after it with
\* the same order, product, quantity, unitPrice and totalPrice, whatever the
\* step is (CreateOrder, AddOrderItem at a new catalog price,
\* RemoveOrderItem, UpdateOrderStatus, a reload or UpdateOrderTotal); a
\* removal only marks the row deleted.
C16_UnitPriceImmutable ==
    [][\A r \in items :
          \E r2 \in items' :
             /\ r2.id = r.id
             /\ r2.orderId = r.orderId
             /\ r2.productId = r.productId
             /\ r2.quantity = r.quantity
             /\ r2.unitPrice = r.unitPrice
             /\ r2.totalPrice = r.totalPrice]_vars

\* C16 happens: an order holds a row of product 7 created at unit price 20
\* and a row of the same product added later at unit price 5, and the
\* AddOrderItem that added it has written the recomputed total.
C16_Witness ==
    \E a \in items, b \in items, p \in Procs :
       /\ a.orderId = b.orderId /\ a.productId = b.productId
       /\ a.origin = "create" /\ a.unitPrice = 20 /\ a.totalPrice = 40
       /\ b.origin = "add" /\ b.unitPrice = 5
       /\ proc[p].op = "AddOrderItem" /\ proc[p].pc = "done"
       /\ proc[p].err = NoError /\ proc[p].wroteTotal
       /\ proc[p].item.id = b.id

C21_ItemRowsWellFormed ==
    \A it \in items :
       /\ it.quantity > 0
       /\ it.totalPrice = it.unitPrice * it.quantity

\* C21 happens: the store holds a row inserted by CreateOrder and a row
\* inserted by AddOrderItem, and an AddOrderItem asking for quantity 0 has
\* been turned down by the handler.
C21_Witness ==
    /\ \E it \in items : it.origin = "create" /\ ~it.deleted
    /\ \E it \in items : it.origin = "add" /\ ~it.deleted
    /\ \E p \in Procs :
          /\ proc[p].op = "AddOrderItem" /\ proc[p].pc = "done"
          /\ proc[p].err = ErrValidation
          /\ proc[p].orderId \in DOMAIN orders

\* worker p takes a request in this step, and it is an UpdateOrderStatus
\* that passed the handler's validation
StatusEnters(p) ==
    /\ started' = started + 1
    /\ proc'[p] # proc[p]
    /\ proc'[p].op = "UpdateOrderStatus"
    /\ proc'[p].err # ErrValidation

RecomputeFails(p) ==
    /\ proc[p].op \in ItemMutations
    /\ proc[p].pc \in {"first", "preload", "total"}
    /\ proc'[p].pc = "done"
    /\ proc'[p].err # NoError

\* the item mutation of the call recorded as q is in effect in rows
MutationInEffect(q, rows) ==
    \E it \in rows :
       /\ it.id = q.item.id /\ it.orderId = q.orderId
       /\ q.op = "RemoveOrderItem" => it.deleted

\* C23: when the reload or the total write of an AddOrderItem or
\* RemoveOrderItem fails after the item mutation committed, the call returns
\* that error, the item stays added or removed, and the stored total of
\* every order keeps its value; and a step that writes an order's total on
\* behalf of such a call is taken only after the call's item mutation has
\* committed.
C23_FailedRecomputeKeepsMutation ==
    [][\A p \in Procs :
          /\ RecomputeFails(p) =>
                /\ proc[p].mutated /\ proc'[p].mutated
                /\ proc'[p].err \in {DBError("select order"),
                                     DBError("update total")}
                /\ ~proc'[p].wroteTotal
                /\ MutationInEffect(proc'[p], items')
                /\ orders' = orders
          /\ (proc[p].op \in ItemMutations /\ proc[p].pc # "done"
                 /\ proc'[p] # proc[p] /\ orders' # orders) =>
                proc[p].mutated /\ MutationInEffect(proc[p], items)]_vars

\* C23 happens: an AddOrderItem has returned the error of its total write;
\* its row is in the store and the order still carries the total 45 it had
\* before the call, while its rows now sum to more.
C23_Witness ==
    \E p \in Procs :
       /\ proc[p].op = "AddOrderItem" /\ proc[p].pc = "done"
       /\ proc[p].err = DBError("update total")
       /\ proc[p].mutated
       /\ MutationInEffect(proc[p], items)
       /\ ~proc[p].item.deleted
       /\ orders[proc[p].orderId].total = 45
       /\ PersistedTotal(proc[p].orderId) > 45

\* the orders the filter userId selects (0: no filter), by the contract
Matching(userId) ==
    {o \in DOMAIN orders : userId = 0 \/ orders[o].userId = userId}

\* position of order o in the orders S sorted by id descending
Position(o, S) == Cardinality({x \in S : x > o}) + 1

\* a ListOrders call has returned for a request with page and perPage as
\* the client sent them
Listed(p) == proc[p].op = "ListOrders" /\ proc[p].pc = "done"

\* C24: ListOrders(userId?, page, perPage), with page 0 read as 1 and perPage
\* 0 read as 10, returns exactly the matching orders at positions
\* (page-1)*perPage+1 .. page*perPage of the matching orders sorted by id
\* descending, in that order, and as total the number of all matching
\* orders.
C24_ListOrdersPage ==
    \A p \in Procs :
       Listed(p) =>
          LET q == proc[p]
              page == IF q.reqPage = 0 THEN 1 ELSE q.reqPage
              perPage == IF q.reqPerPage = 0 THEN 10 ELSE q.reqPerPage
              S == Matching(q.userId)
              lo == (page - 1) * perPage + 1
              hi == page * perPage
              onPage == {o \in S : Position(o, S) \in lo..hi}
          IN /\ q.err = NoError
             /\ q.total = Cardinality(S)
             /\ Len(q.orders) = Cardinality(onPage)
             /\ \A i \in 1..Len(q.orders) :
                   /\ q.orders[i].id \in S
                   /\ Position(q.orders[i].id, S) = lo + i - 1
                   /\ q.orders[i] = orders[q.orders[i].id]

\* C24 happens: over a store of three orders, two of them of user 2, a
\* request with filter user 2, page 0 and perPage 1 has returned the newer
\* order of user 2 alone and total 2.
C24_Witness ==
    \E p \in Procs :
       /\ Listed(p)
       /\ Cardinality(DOMAIN orders) = 3
       /\ proc[p].userId = 2 /\ proc[p].reqPage = 0 /\ proc[p].reqPerPage = 1
       /\ proc[p].total = 2
       /\ Len(proc[p].orders) = 1
       /\ \E o \in DOMAIN orders :
             /\ o < proc[p].orders[1].id
             /\ orders[o].userId = 2

\* the latest step found the breaker closed and left it open
Tripped ==
    /\ last.op \in {"before", "after"}
    /\ last.pre.state = "closed"
    /\ B.state = "open"

\* C25: a closed breaker becomes open only in the step that completes a
\* call, that call being a breaker failure counted in the current window,
\* and only if after it the window's counts have Requests >= MinRequests,
\* Requests > 0 and TotalFailures / Requests >= FailureRatio; a closed
\* breaker whose window counts fewer than MinRequests requests stays closed.
C25_TripsOnlyOnRatio ==
    Tripped =>
       /\ Counted
       /\ isBreakerFailure(last.out)
       /\ Entry = last.pre
       /\ last.pre.Requests >= MinRequests
       /\ last.pre.Requests > 0
       /\ (last.pre.TotalFailures + 1) * FailureRatioDen
             >= FailureRatioNum * last.pre.Requests

\* C25 happens: the breaker has just tripped on the failure that brought a
\* window of exactly MinRequests requests to the failure ratio, an earlier
\* failure at one request having left it closed.
C25_Witness ==
    /\ Tripped
    /\ last.pre.Requests = MinRequests
    /\ last.pre.TotalFailures >= 1
    /\ last.pre.TotalSuccesses = 0

\* calls in flight that were admitted in the breaker's current generation
InFlightNow ==
    {c \in Callers : calls[c].pc = "inflight"
                        /\ calls[c].generation = B.generation}

\* the latest step completed a call counted in a closed window and left the
\* breaker closed
CompletedClosed == Counted /\ Entry.state = "closed" /\ B.state = "closed"

\* the latest step admitted a call to a closed breaker
AdmittedClosed == Admitted /\ Entry.state = "closed"

\* C26 as stated: while the breaker is closed a call is counted in requests
\* when it completes, together with one of successes or failures; calls in
\* flight are not counted in requests.
C26_CountedAtCompletion ==
    /\ AdmittedClosed => B.Requests = Entry.Requests
    /\ CompletedClosed => B.Requests = Entry.Requests + 1
    /\ B.state = "closed" => B.Requests = B.TotalSuccesses + B.TotalFailures

\* C26 as amended: while the breaker is closed a call is counted in requests
\* when it is admitted, and when it completes in the same window exactly
\* one of successes or failures, chosen by the classifier, goes up by one
\* while requests stays; requests is the window's successes plus failures
\* plus its calls in flight.
C26_CountedAtAdmission ==
    /\ AdmittedClosed =>
          /\ B.Requests = Entry.Requests + 1
          /\ B.TotalSuccesses = Entry.TotalSuccesses
          /\ B.TotalFailures = Entry.TotalFailures
    /\ CompletedClosed =>
          /\ B.Requests = Entry.Requests
          /\ IF isBreakerFailure(last.out)
             THEN /\ B.TotalFailures = Entry.TotalFailures + 1
                  /\ B.TotalSuccesses = Entry.TotalSuccesses
             ELSE /\ B.TotalSuccesses = Entry.TotalSuccesses + 1
                  /\ B.TotalFailures = Entry.TotalFailures
    /\ B.state = "closed" =>
          B.Requests = B.TotalSuccesses + B.TotalFailures
                          + Cardinality(InFlightNow)

\* C26 happens: a call has just completed in a closed window in which
\* another call is still in flight, so requests is 2 with one completion.
C26_Witness ==
    /\ CompletedClosed
    /\ B.Requests = 2
    /\ B.TotalSuccesses + B.TotalFailures = 1
    /\ Cardinality(InFlightNow) = 1

\* the latest step was a call step on a closed breaker whose window had
\* started more than Interval ago
WindowOver ==
    /\ CallStep
    /\ last.pre.state = "closed"
    /\ last.pre.expiry # ZeroTime
    /\ now > last.pre.expiry

\* the latest step was a call step on a closed breaker inside its window
WindowRuns ==
    /\ CallStep
    /\ last.pre.state = "closed"
    /\ now <= last.pre.expiry

\* C27: the first call step on a closed breaker after Interval has elapsed
\* since the window started finds requests, successes and failures reset
\* to zero (up to the request the step itself admits) and the window
\* restarted at the current time, whatever the counts were, and the breaker
\* stays closed: failures of the earlier window take no part in a later
\* trip; inside the window no reset takes place unless the breaker trips.
C27_WindowRollover ==
    /\ WindowOver =>
          /\ B.state = "closed"
          /\ B.generation = last.pre.generation + 1
          /\ B.expiry = now + Interval
          /\ B.TotalSuccesses = 0 /\ B.TotalFailures = 0
          /\ B.ConsecutiveSuccesses = 0 /\ B.ConsecutiveFailures = 0
          /\ B.Requests = IF Admitted THEN 1 ELSE 0
    /\ (WindowRuns /\ B.state = "closed") =>
          /\ B.generation = last.pre.generation
          /\ B.expiry = last.pre.expiry
          /\ B.TotalFailures >= last.pre.TotalFailures
    /\ Tripped => WindowRuns

\* C27 happens: a failure that would have completed the trip condition of
\* its window (one failure counted, MinRequests requests) arrives after the
\* window is over: the counters are reset and the breaker stays closed.
C27_Witness ==
    /\ WindowOver
    /\ last.op = "after" /\ isBreakerFailure(last.out)
    /\ last.pre.TotalFailures >= 1
    /\ last.pre.Requests >= MinRequests
    /\ B.state = "closed" /\ CountsCleared(B)

\* the latest step completed a call that was admitted in a generation of
\* the breaker that is over: a transition or a window rollover lies between
\* its admission and its completion
Stale == last.op = "after" /\ Entry.generation # last.generation

\* C28: the completion of a call admitted before a state transition or a
\* window rollover is discarded whatever its result: the breaker is left as
\* the time alone makes it (a window that is over is restarted empty, a
\* cool-down that is over ends in half-open, anything else is untouched).
\* So a probe that succeeds after the breaker re-opened neither closes it
\* nor moves its cool-down, and a failure from an earlier closed window
\* never trips the breaker.
C28_StaleResultDiscarded ==
    Stale =>
       /\ B.state # last.pre.state =>
             /\ last.pre.state = "open" /\ B.state = "half-open"
             /\ now > last.pre.expiry
       /\ B.generation = last.pre.generation => B = last.pre
       /\ B.generation # last.pre.generation =>
             /\ CountsCleared(B)
             /\ last.pre.state # "half-open"
             /\ now > last.pre.expiry
       /\ (last.pre.state = "open" /\ now <= last.pre.expiry) => B = last.pre
       /\ last.pre.state = "closed" => B.state = "closed"

\* C28 happens: a probe admitted by the half-open breaker succeeds after
\* another probe's failure has re-opened the breaker, inside the new
\* cool-down: the breaker stays open with its expiry unchanged.
C28_Witness ==
    /\ Stale
    /\ last.admitted = "half-open"
    /\ IsSuccessful(last.out)
    /\ last.pre.state = "open"
    /\ now <= last.pre.expiry
    /\ B.state = "open" /\ B.expiry = last.pre.expiry

\* C29: a breaker that is open or half-open is closed again later on,
\* provided the clock advances, calls keep arriving, every admitted call is
\* answered and the answers stop being breaker failures.
C29_Recovers == (B.state # "closed") ~> (B.state = "closed")

\* C29 happens: the breaker has closed on the last successful probe of its
\* second half-open period, a failed probe having re-opened it once.
C29_Witness ==
    /\ last.op = "after"
    /\ last.pre.state = "half-open"
    /\ B.state = "closed"
    /\ B.generation >= 6

\* worker p takes a step of an AddOrderItem call whose orderId names no
\* order of the store
AddToMissingOrder(p) ==
    /\ proc'[p] # proc[p]
    /\ proc'[p].op = "AddOrderItem"
    /\ proc'[p].orderId \notin DOMAIN orders

\* C30: no step of an AddOrderItem on an orderId that names no order changes
\* a row of orders or of order_items, the call ends with an error, and no
\* row of order_items ever references an order that does not exist.
C30_AddToMissingOrder ==
    [][/\ \A p \in Procs :
             AddToMissingOrder(p) =>
                /\ orders' = orders
                /\ items' = items
                /\ proc'[p].pc = "done" =>
                      proc'[p].err # NoError /\ ~proc'[p].mutated
       /\ \A it \in items' : it.orderId \in DOMAIN orders']_vars

\* C30 happens: the product was validated, the insert for order 2 was
\* refused by the foreign key, and order 1 has its total of 45 and its two
\* rows as before.
C30_Witness ==
    \E p \in Procs :
       /\ proc[p].op = "AddOrderItem" /\ proc[p].pc = "done"
       /\ proc[p].orderId \notin DOMAIN orders
       /\ proc[p].err = [msg |-> "db", cause |-> "foreign key"]
       /\ 1 \in DOMAIN orders
       /\ orders[1].total = 45
       /\ Cardinality(ItemsOf(1)) = 2
       /\ \A it \in items : it.orderId = 1

=============================================================================
